---- MODULE Spec2Model ----
(***************************************************************************)
(* A model of src/new_calc.py: set_random_seed(seed, deterministic).       *)
(*                                                                         *)
(* The process-wide state the function touches is modelled by global       *)
(* variables (os.environ, the state of each random-number generator, the   *)
(* two cuDNN flags, the outcome of the two optional imports).  Each thread *)
(* that runs the function has a program counter named after the source    *)
(* line it is about to execute, and the function's locals.                 *)
(*                                                                         *)
(* Python integers are unbounded.  They are represented here as            *)
(* sign/magnitude values with two limbs, [neg, hi, lo], standing for       *)
(* (-1)^neg * (hi * 65536 + lo) with 0 <= lo < 65536, so that values up to *)
(* and beyond 2^32 are computed from numbers that all stay small.          *)
(***************************************************************************)
EXTENDS Integers, Sequences, FiniteSets, TLC

VARIABLES
    np,                 \* module global np: "None", or the behaviour of the imported library
    torch,              \* module global torch: "None", or the behaviour of the imported library
    cudaAvailable,      \* what torch.cuda.is_available() answers
    environ,            \* os.environ, restricted to the key the function uses
    pyRandom,           \* state of the global generator of module random
    npRandom,           \* state of numpy's global RandomState
    torchCpu,           \* state of torch's default CPU generator
    torchCuda,          \* state of torch's CUDA generators
    cudnnDeterministic, \* torch.backends.cudnn.deterministic
    cudnnBenchmark,     \* torch.backends.cudnn.benchmark
    pc,                 \* per thread: the line about to be executed
    arg,                \* per thread: the seed argument as passed by the caller
    seed,               \* per thread: the local variable seed
    deterministic,      \* per thread: the parameter deterministic
    entropy,            \* per thread: the bytes os.urandom returned in this call
    ret,                \* per thread: the value returned by the last finished call
    entry,              \* per thread: the process-wide state when the call was made
    prev                \* per thread: arguments and result of the call before this one

globals == <<environ, pyRandom, npRandom, torchCpu, torchCuda,
             cudnnDeterministic, cudnnBenchmark>>
libs == <<np, torch, cudaAvailable>>
vars == <<np, torch, cudaAvailable, environ, pyRandom, npRandom, torchCpu,
          torchCuda, cudnnDeterministic, cudnnBenchmark, pc, arg, seed,
          deterministic, entropy, ret, entry, prev>>

----------------------------------------------------------------------------
(* Bounds of the model.                                                    *)

\* Explicit seeds passed by callers range over -1 .. MaxSeed.
MaxSeed == 0
\* Where every 4-byte input is enumerated, the bytes are drawn from {0, 255}
\* and 1 .. MaxLowByte.
MaxLowByte == 1

\* os.urandom(4): the number of entropy bytes read.
EntropyBytes == 4

Threads == {"main", "worker"}
MainThread == "main"

----------------------------------------------------------------------------
(* Python values.                                                          *)

None == [none |-> TRUE]

\* The Python int n, for a small n.
PyInt(n) == [neg |-> n < 0, hi |-> 0, lo |-> IF n < 0 THEN 0 - n ELSE n]

\* w * m + a for a non-negative w and small non-negative m, a.
MulAdd(w, m, a) ==
    LET low == w.lo * m + a
    IN  [neg |-> FALSE, hi |-> w.hi * m + low \div 65536, lo |-> low % 65536]

\* The bytes read most significant first, as byteorder="big" would.
RECURSIVE FromBytesBig(_)
FromBytesBig(b) ==
    IF b = << >> THEN PyInt(0)
    ELSE MulAdd(FromBytesBig(SubSeq(b, 1, Len(b) - 1)), 256, b[Len(b)])

\* int.from_bytes(b, byteorder="little"): b[1] + 256 * b[2] + 256^2 * b[3] + ...
RECURSIVE FromBytesLittle(_)
FromBytesLittle(b) ==
    IF b = << >> THEN PyInt(0)
    ELSE MulAdd(FromBytesLittle(Tail(b)), 256, Head(b))

DigitChar(d) == <<"0", "1", "2", "3", "4", "5", "6", "7", "8", "9">>[d + 1]

\* The decimal digits of hi * 65536 + lo, most significant first.
RECURSIVE Digits(_, _)
Digits(hi, lo) ==
    LET rest == (hi % 10) * 65536 + lo
    IN  IF hi = 0 /\ lo < 10 THEN DigitChar(lo)
        ELSE Digits(hi \div 10, rest \div 10) \o DigitChar(rest % 10)

\* str(n) of a Python int.
Str(w) == (IF w.neg THEN "-" ELSE "") \o Digits(w.hi, w.lo)

----------------------------------------------------------------------------
(* Inputs.                                                                 *)

ExplicitSeeds == {PyInt(n) : n \in (0 - 1) .. MaxSeed}
SeedArgs == ExplicitSeeds \cup {None}
ByteSamples == {0, 255} \cup (1 .. MaxLowByte)
Urandom(n) == [1 .. n -> ByteSamples]
\* Two results of os.urandom: all bits set, and only bit 8 set.
SampleEntropy(n) == {[i \in 1 .. n |-> 255], [i \in 1 .. n |-> IF i = 2 THEN 1 ELSE 0]}

HASHSEED == "PYTHONHASHSEED"
\* Values the variable may hold before the first call.
PresetHashSeeds == {"0"}

\* A generator in a state the function did not produce, and one freshly seeded.
Prior == << >>
Fresh(s) == <<s>>

NpKinds == {"None", "ok", "raises"}
TorchKinds == {"None", "ok", "raises_manual_seed", "raises_is_available",
               "raises_manual_seed_all", "raises_deterministic", "raises_benchmark"}

\* What torch.cuda.is_available() may answer: the question is asked only when
\* torch was imported and torch.manual_seed did not raise, and
\* torch.cuda.manual_seed_all is called only after the answer True.
CudaAnswers(kind) ==
    IF kind \in {"None", "raises_manual_seed", "raises_is_available"} THEN {FALSE}
    ELSE IF kind = "raises_manual_seed_all" THEN {TRUE}
    ELSE BOOLEAN

Globals == [environ |-> environ, pyRandom |-> pyRandom, npRandom |-> npRandom,
            torchCpu |-> torchCpu, torchCuda |-> torchCuda,
            cudnnDeterministic |-> cudnnDeterministic,
            cudnnBenchmark |-> cudnnBenchmark]

NoCall == [none |-> TRUE]

----------------------------------------------------------------------------
(* Initial state: the process after the module was imported.               *)

Init ==
    /\ np \in NpKinds
    /\ torch \in TorchKinds
    /\ cudaAvailable \in CudaAnswers(torch)
    /\ environ \in {<< >>} \cup {(HASHSEED :> v) : v \in PresetHashSeeds}
    /\ pyRandom = Prior
    /\ npRandom = Prior
    /\ torchCpu = Prior
    /\ torchCuda = Prior
    /\ cudnnDeterministic \in BOOLEAN
    /\ cudnnBenchmark \in BOOLEAN
    /\ pc = [t \in Threads |-> "idle"]
    /\ arg = [t \in Threads |-> None]
    /\ seed = [t \in Threads |-> None]
    /\ deterministic = [t \in Threads |-> TRUE]
    /\ entropy = [t \in Threads |-> << >>]
    /\ ret = [t \in Threads |-> None]
    /\ entry = [t \in Threads |-> Globals]
    /\ prev = [t \in Threads |-> NoCall]

----------------------------------------------------------------------------
(* Steps of set_random_seed.                                               *)

Goto(t, line) == pc' = [pc EXCEPT ![t] = line]

\* The error leaves the function: the call ends without returning.
Propagate(t, resume) == Goto(t, "raised")

\* try: ... except Exception: pass -- the error is dropped and execution
\* resumes after the try statement.
ExceptPass(t, resume) == Goto(t, resume)

\* os.environ[key] = value
SetItem(env, key, value) == (key :> value) @@ env

\* os.environ.get(key, value): reads, and writes nothing.
GetDefault(env, key, value) == env

\* os.environ.setdefault(key, value)
Setdefault(env, key, value) ==
    IF key \in DOMAIN env THEN env ELSE env @@ (key :> value)

\* np.random.seed() without its argument: reseeded from the operating system.
NpRandomSeedNoArg(state, s) == Prior

\* random.seed(s), np.random.seed(s), torch.manual_seed(s),
\* torch.cuda.manual_seed_all(s): the generator's state after the call.
RandomSeed(state, s) == Fresh(s)
NpRandomSeed(state, s) == Fresh(s)
TorchManualSeed(state, s) == Fresh(s)
CudaManualSeedAll(state, s) == Fresh(s)

\* int(seed) & 0xFFFFFFFF: the seed forced into 32 unsigned bits.
ReturnValueMod32(t) ==
    IF seed[t].neg /\ seed[t].hi = 0 /\ seed[t].lo > 0
    THEN [neg |-> FALSE, hi |-> 65535, lo |-> 65536 - seed[t].lo]
    ELSE [neg |-> FALSE, hi |-> seed[t].hi % 65536, lo |-> seed[t].lo]

\* The seed the global generator holds at the time of the return.
ReturnGeneratorSeed(t) == pyRandom[1]

\* The value of "return int(seed)": seed is an int, and int() of an int is
\* that int.
ReturnValue(t) == seed[t]

\* The condition of line 31 taken as always true.
SeedAlwaysNone(t) == TRUE

\* Line 31: seed is None.
SeedIsNone(t) == seed[t] = None

\* cudnn.benchmark switched on instead of off.
BenchmarkOn == TRUE

\* Lines 56 and 57: the values assigned to the two cuDNN flags.
DeterministicValue == TRUE
BenchmarkValue == FALSE

\* A caller invokes set_random_seed(s, d).
Call(t, s, d) ==
    /\ pc[t] \in {"idle", "done"}
    /\ arg' = [arg EXCEPT ![t] = s]
    /\ seed' = [seed EXCEPT ![t] = s]
    /\ deterministic' = [deterministic EXCEPT ![t] = d]
    /\ entropy' = [entropy EXCEPT ![t] = << >>]
    /\ ret' = [ret EXCEPT ![t] = None]
    /\ entry' = [entry EXCEPT ![t] = Globals]
    /\ prev' = [prev EXCEPT ![t] =
                  IF pc[t] = "done"
                  THEN [arg |-> arg[t], deterministic |-> deterministic[t],
                        ret |-> ret[t]]
                  ELSE NoCall]
    /\ Goto(t, "L31")
    /\ UNCHANGED <<globals, libs>>

\* Lines 31-33, seed is None: seed = int.from_bytes(os.urandom(4), "little").
GenerateSeed(t, bytes) ==
    /\ pc[t] = "L31"
    /\ SeedIsNone(t)
    /\ entropy' = [entropy EXCEPT ![t] = bytes]
    /\ seed' = [seed EXCEPT ![t] = FromBytesLittle(bytes)]
    /\ Goto(t, "L36")
    /\ UNCHANGED <<globals, libs, arg, deterministic, ret, entry, prev>>

\* Line 31, seed is not None.
KeepSeed(t) ==
    /\ pc[t] = "L31"
    /\ ~SeedIsNone(t)
    /\ Goto(t, "L36")
    /\ UNCHANGED <<globals, libs, arg, seed, deterministic, entropy, ret, entry, prev>>

\* Line 36.
EnvSetdefault(t) ==
    /\ pc[t] = "L36"
    /\ environ' = Setdefault(environ, HASHSEED, Str(seed[t]))
    /\ Goto(t, "L39")
    /\ UNCHANGED <<libs, pyRandom, npRandom, torchCpu, torchCuda,
                   cudnnDeterministic, cudnnBenchmark,
                   arg, seed, deterministic, entropy, ret, entry, prev>>

\* Line 39.
SeedPython(t) ==
    /\ pc[t] = "L39"
    /\ pyRandom' = RandomSeed(pyRandom, seed[t])
    /\ Goto(t, "L42")
    /\ UNCHANGED <<libs, environ, npRandom, torchCpu, torchCuda,
                   cudnnDeterministic, cudnnBenchmark,
                   arg, seed, deterministic, entropy, ret, entry, prev>>

\* Line 42, np is None.
NumpyAbsent(t) ==
    /\ pc[t] = "L42"
    /\ np = "None"
    /\ Goto(t, "L49")
    /\ UNCHANGED <<globals, libs, arg, seed, deterministic, entropy, ret, entry, prev>>

\* Lines 42-44, np.random.seed(seed) succeeds.
SeedNumpy(t) ==
    /\ pc[t] = "L42"
    /\ np = "ok"
    /\ npRandom' = NpRandomSeed(npRandom, seed[t])
    /\ Goto(t, "L49")
    /\ UNCHANGED <<libs, environ, pyRandom, torchCpu, torchCuda,
                   cudnnDeterministic, cudnnBenchmark,
                   arg, seed, deterministic, entropy, ret, entry, prev>>

\* Lines 42-46, np.random.seed(seed) raises.
SeedNumpyRaises(t) ==
    /\ pc[t] = "L42"
    /\ np = "raises"
    /\ ExceptPass(t, "L49")
    /\ UNCHANGED <<globals, libs, arg, seed, deterministic, entropy, ret, entry, prev>>

\* Line 49, torch is None.
TorchAbsent(t) ==
    /\ pc[t] = "L49"
    /\ torch = "None"
    /\ Goto(t, "L61")
    /\ UNCHANGED <<globals, libs, arg, seed, deterministic, entropy, ret, entry, prev>>

\* Lines 49-51, torch.manual_seed(seed) succeeds.
SeedTorch(t) ==
    /\ pc[t] = "L49"
    /\ torch \notin {"None", "raises_manual_seed"}
    /\ torchCpu' = TorchManualSeed(torchCpu, seed[t])
    /\ Goto(t, "L52")
    /\ UNCHANGED <<libs, environ, pyRandom, npRandom, torchCuda,
                   cudnnDeterministic, cudnnBenchmark,
                   arg, seed, deterministic, entropy, ret, entry, prev>>

\* Lines 49-51 and 58-59, torch.manual_seed(seed) raises.
SeedTorchRaises(t) ==
    /\ pc[t] = "L49"
    /\ torch = "raises_manual_seed"
    /\ ExceptPass(t, "L61")
    /\ UNCHANGED <<globals, libs, arg, seed, deterministic, entropy, ret, entry, prev>>

\* Line 52, torch.cuda.is_available() answers.
CudaIsAvailable(t) ==
    /\ pc[t] = "L52"
    /\ torch # "raises_is_available"
    /\ Goto(t, IF cudaAvailable THEN "L53" ELSE "L54")
    /\ UNCHANGED <<globals, libs, arg, seed, deterministic, entropy, ret, entry, prev>>

\* Lines 52 and 58-59, torch.cuda.is_available() raises.
CudaIsAvailableRaises(t) ==
    /\ pc[t] = "L52"
    /\ torch = "raises_is_available"
    /\ ExceptPass(t, "L61")
    /\ UNCHANGED <<globals, libs, arg, seed, deterministic, entropy, ret, entry, prev>>

\* Line 53, torch.cuda.manual_seed_all(seed) succeeds.
SeedCuda(t) ==
    /\ pc[t] = "L53"
    /\ torch # "raises_manual_seed_all"
    /\ torchCuda' = CudaManualSeedAll(torchCuda, seed[t])
    /\ Goto(t, "L54")
    /\ UNCHANGED <<libs, environ, pyRandom, npRandom, torchCpu,
                   cudnnDeterministic, cudnnBenchmark,
                   arg, seed, deterministic, entropy, ret, entry, prev>>

\* Lines 53 and 58-59, torch.cuda.manual_seed_all(seed) raises.
SeedCudaRaises(t) ==
    /\ pc[t] = "L53"
    /\ torch = "raises_manual_seed_all"
    /\ ExceptPass(t, "L61")
    /\ UNCHANGED <<globals, libs, arg, seed, deterministic, entropy, ret, entry, prev>>

\* Line 54, deterministic is false.
SkipDeterministic(t) ==
    /\ pc[t] = "L54"
    /\ ~deterministic[t]
    /\ Goto(t, "L61")
    /\ UNCHANGED <<globals, libs, arg, seed, deterministic, entropy, ret, entry, prev>>

\* Lines 54-56, torch.backends.cudnn.deterministic = True.
SetCudnnDeterministic(t) ==
    /\ pc[t] = "L54"
    /\ deterministic[t]
    /\ torch # "raises_deterministic"
    /\ cudnnDeterministic' = DeterministicValue
    /\ Goto(t, "L57")
    /\ UNCHANGED <<libs, environ, pyRandom, npRandom, torchCpu, torchCuda,
                   cudnnBenchmark,
                   arg, seed, deterministic, entropy, ret, entry, prev>>

\* Lines 54-56 and 58-59, the assignment to cudnn.deterministic raises.
SetCudnnDeterministicRaises(t) ==
    /\ pc[t] = "L54"
    /\ deterministic[t]
    /\ torch = "raises_deterministic"
    /\ ExceptPass(t, "L61")
    /\ UNCHANGED <<globals, libs, arg, seed, deterministic, entropy, ret, entry, prev>>

\* Line 57, torch.backends.cudnn.benchmark = False.
SetCudnnBenchmark(t) ==
    /\ pc[t] = "L57"
    /\ torch # "raises_benchmark"
    /\ cudnnBenchmark' = BenchmarkValue
    /\ Goto(t, "L61")
    /\ UNCHANGED <<libs, environ, pyRandom, npRandom, torchCpu, torchCuda,
                   cudnnDeterministic,
                   arg, seed, deterministic, entropy, ret, entry, prev>>

\* Lines 57-59, the assignment to cudnn.benchmark raises.
SetCudnnBenchmarkRaises(t) ==
    /\ pc[t] = "L57"
    /\ torch = "raises_benchmark"
    /\ ExceptPass(t, "L61")
    /\ UNCHANGED <<globals, libs, arg, seed, deterministic, entropy, ret, entry, prev>>

\* Line 61.
Return(t) ==
    /\ pc[t] = "L61"
    /\ ret' = [ret EXCEPT ![t] = ReturnValue(t)]
    /\ Goto(t, "done")
    /\ UNCHANGED <<globals, libs, arg, seed, deterministic, entropy, entry, prev>>

----------------------------------------------------------------------------
(* Specifications.                                                         *)

\* One step of a call in progress, from line 36 on.
Seeding(t) ==
    \/ EnvSetdefault(t)
    \/ SeedPython(t)
    \/ NumpyAbsent(t)
    \/ SeedNumpy(t)
    \/ SeedNumpyRaises(t)
    \/ TorchAbsent(t)
    \/ SeedTorch(t)
    \/ SeedTorchRaises(t)
    \/ CudaIsAvailable(t)
    \/ CudaIsAvailableRaises(t)
    \/ SeedCuda(t)
    \/ SeedCudaRaises(t)
    \/ SkipDeterministic(t)
    \/ SetCudnnDeterministic(t)
    \/ SetCudnnDeterministicRaises(t)
    \/ SetCudnnBenchmark(t)
    \/ SetCudnnBenchmarkRaises(t)
    \/ Return(t)

\* One step of a call in progress.
Step(t, urandom) ==
    \/ \E bytes \in urandom : GenerateSeed(t, bytes)
    \/ KeepSeed(t)
    \/ Seeding(t)

\* Calls made one after the other by a single thread.
SeqCall == \E s \in SeedArgs, d \in BOOLEAN : Call(MainThread, s, d)

Next == SeqCall \/ \E t \in Threads : Step(t, SampleEntropy(EntropyBytes))

Spec == Init /\ [][Next]_vars

\* A single call without a seed, over every 4-byte result of os.urandom.
EntropyCall == \E d \in BOOLEAN : pc[MainThread] = "idle" /\ Call(MainThread, None, d)

NextEntropy ==
    \/ EntropyCall
    \/ \E t \in Threads :
          \/ \E bytes \in Urandom(EntropyBytes) : GenerateSeed(t, bytes)
          \/ Seeding(t)

SpecEntropy == Init /\ [][NextEntropy]_vars

\* Every thread makes one call, and the calls run at the same time, in a
\* freshly started interpreter: the variable unset, the flags at their defaults.
InitConc == Init /\ environ = << >> /\ ~cudnnDeterministic /\ ~cudnnBenchmark

ConcCall == \E t \in Threads, s \in SeedArgs, d \in BOOLEAN :
                pc[t] = "idle" /\ Call(t, s, d)

NextConc == ConcCall \/ \E t \in Threads : Step(t, SampleEntropy(EntropyBytes))

SpecConc == InitConc /\ [][NextConc]_vars

----------------------------------------------------------------------------
(* Properties.                                                             *)

Done(t) == pc[t] = "done"
Running(t) == pc[t] \notin {"idle", "done", "raised"}
IsInt(v) == DOMAIN v = {"neg", "hi", "lo"}

\* 0 <= w <= 2^32 - 1
InUnsigned32(w) == ~w.neg /\ 0 <= w.hi /\ w.hi <= 65535 /\ 0 <= w.lo /\ w.lo <= 65535

AllOnes == [i \in 1 .. 4 |-> 255]

NoErrorPropagates ==
    \A t \in Threads :
        /\ pc[t] # "raised"
        /\ Running(t) => ENABLED (\E bytes \in SampleEntropy(EntropyBytes) :
                                      Step(t, {bytes}))
        /\ Done(t) => IsInt(ret[t]) /\ ret[t] = seed[t]

\* A call finished although np.random.seed raised and
\* torch.cuda.manual_seed_all raised.
NoErrorPropagatesWitness ==
    /\ Done(MainThread)
    /\ np = "raises"
    /\ torch = "raises_manual_seed_all"
    /\ cudaAvailable
    /\ torchCpu = Fresh(ret[MainThread])
    /\ torchCuda = Prior
    /\ IsInt(ret[MainThread])

\* C3: once the environment variable holds a value, no step of any call
\* changes it.
HashSeedNeverOverwritten ==
    [][(HASHSEED \in DOMAIN environ) => (environ' = environ)]_vars

\* Two calls were made with the variable set to "0" beforehand, the second
\* with seed -1, and the variable still holds "0".
HashSeedNeverOverwrittenWitness ==
    /\ Done(MainThread)
    /\ prev[MainThread] # NoCall
    /\ HASHSEED \in DOMAIN entry[MainThread].environ
    /\ ret[MainThread] = PyInt(0 - 1)
    /\ environ[HASHSEED] = "0"

\* C4: when the environment variable was unset at the time of the call, it
\* holds the decimal string of the returned seed when the call has finished
\* ("-1" for the seed -1, "4294967295" for the seed generated from four
\* bytes 255).
HashSeedSetWhenUnset ==
    \A t \in Threads :
        Done(t) /\ HASHSEED \notin DOMAIN entry[t].environ =>
            /\ HASHSEED \in DOMAIN environ
            /\ environ[HASHSEED] = Str(ret[t])
            /\ arg[t] = PyInt(0 - 1) => environ[HASHSEED] = "-1"
            /\ arg[t] = PyInt(0) => environ[HASHSEED] = "0"
            /\ entropy[t] = AllOnes => environ[HASHSEED] = "4294967295"

\* A call without a seed, made with the variable unset, drew the bytes
\* 0, 1, 0, 0 and left the variable at "256".
HashSeedSetWhenUnsetWitness ==
    /\ Done(MainThread)
    /\ arg[MainThread] = None
    /\ HASHSEED \notin DOMAIN entry[MainThread].environ
    /\ entropy[MainThread] = <<0, 1, 0, 0>>
    /\ environ = (HASHSEED :> "256")

\* C5: when a call has returned r, the general-purpose generator is in the
\* state of a generator freshly seeded with r, and so is every optional
\* generator whose seeding call was reached and did not raise; while the call
\* runs, a generator holds either what it held at the call or the call's seed.
SeedAppliedEverywhere ==
    \A t \in Threads :
        /\ Done(t) =>
            /\ pyRandom = Fresh(ret[t])
            /\ np = "ok" => npRandom = Fresh(ret[t])
            /\ torch \notin {"None", "raises_manual_seed"} => torchCpu = Fresh(ret[t])
            /\ (/\ torch \in {"ok", "raises_deterministic", "raises_benchmark"}
                /\ cudaAvailable) => torchCuda = Fresh(ret[t])
        /\ (Running(t) /\ ~SeedIsNone(t)) \/ Done(t) =>
            /\ pyRandom \in {entry[t].pyRandom, Fresh(seed[t])}
            /\ npRandom \in {entry[t].npRandom, Fresh(seed[t])}
            /\ torchCpu \in {entry[t].torchCpu, Fresh(seed[t])}
            /\ torchCuda \in {entry[t].torchCuda, Fresh(seed[t])}

\* A second call, with a generated seed, reached all four generators, which
\* held another seed before.
SeedAppliedEverywhereWitness ==
    /\ Done(MainThread)
    /\ arg[MainThread] = None
    /\ prev[MainThread] # NoCall
    /\ entry[MainThread].torchCuda = Fresh(PyInt(0))
    /\ pyRandom = Fresh(ret[MainThread])
    /\ npRandom = Fresh(ret[MainThread])
    /\ torchCpu = Fresh(ret[MainThread])
    /\ torchCuda = Fresh(ret[MainThread])

\* C6: a call without a seed read exactly 4 bytes b1..b4, its seed is
\* b1 + 256 b2 + 65536 b3 + 16777216 b4, which lies in 0 .. 2^32 - 1, and
\* that is the value it returns.
EntropySeedInRange ==
    \A t \in Threads :
        (Running(t) \/ Done(t)) /\ arg[t] = None /\ pc[t] # "L31" =>
            /\ Len(entropy[t]) = 4
            /\ seed[t] = [neg |-> FALSE,
                          hi |-> entropy[t][3] + 256 * entropy[t][4],
                          lo |-> entropy[t][1] + 256 * entropy[t][2]]
            /\ InUnsigned32(seed[t])
            /\ Done(t) => ret[t] = seed[t]

\* The bytes 0, 1, 0, 255 gave the seed 255 * 2^24 + 256 = 4278190336.
EntropySeedInRangeWitness ==
    /\ Done(MainThread)
    /\ arg[MainThread] = None
    /\ entropy[MainThread] = <<0, 1, 0, 255>>
    /\ ret[MainThread] = [neg |-> FALSE, hi |-> 65280, lo |-> 256]
    /\ environ = (HASHSEED :> "4278190336")

\* C7: when torch is present and deterministic is true, a finished call has
\* left cudnn.deterministic on and cudnn.benchmark off.
DeterministicBackendConfigured ==
    \A t \in Threads :
        Done(t) /\ torch # "None" /\ deterministic[t] =>
            cudnnDeterministic /\ ~cudnnBenchmark

\* C8: a call with an explicit seed s and deterministic true that follows a
\* call with the same arguments returns s, as the call before did, and leaves
\* the process-wide state as it found it.
RepeatedCallIdempotent ==
    \A t \in Threads :
        (/\ Done(t)
         /\ prev[t] # NoCall
         /\ arg[t] # None
         /\ deterministic[t]) =>
            (prev[t].arg = arg[t] /\ prev[t].deterministic =>
                /\ ret[t] = arg[t]
                /\ prev[t].ret = arg[t]
                /\ Globals = entry[t])

\* Two calls in a row with seed -1 and deterministic true, with every
\* library working and a GPU, starting with the variable unset.
RepeatedCallIdempotentWitness ==
    /\ Done(MainThread)
    /\ prev[MainThread] = [arg |-> PyInt(0 - 1), deterministic |-> TRUE,
                           ret |-> PyInt(0 - 1)]
    /\ arg[MainThread] = PyInt(0 - 1)
    /\ deterministic[MainThread]
    /\ np = "ok" /\ torch = "ok" /\ cudaAvailable
    /\ environ = (HASHSEED :> "-1")
    /\ torchCuda = Fresh(PyInt(0 - 1))
    /\ cudnnDeterministic /\ ~cudnnBenchmark

\* C9: with two calls running at the same time, each call still returns its
\* own seed, and each generator that was seeded holds the seed of one of the
\* calls (not necessarily the same call for every generator).
ConcurrentCallsReturnOwnSeed ==
    /\ \A t \in Threads :
          Done(t) => ret[t] = seed[t] /\ (arg[t] # None => ret[t] = arg[t])
    /\ (\A t \in Threads : Done(t)) =>
          /\ pyRandom \in {Fresh(ret[t]) : t \in Threads}
          /\ npRandom \in {Prior} \cup {Fresh(ret[t]) : t \in Threads}

\* Both calls finished, one with seed -1 and one with seed 0, each returning
\* its own seed; the general-purpose generator holds -1 and numpy's holds 0.
ConcurrentCallsMixedWitness ==
    /\ \A t \in Threads : Done(t)
    /\ ret["main"] = PyInt(0 - 1)
    /\ ret["worker"] = PyInt(0)
    /\ arg["main"] = PyInt(0 - 1)
    /\ arg["worker"] = PyInt(0)
    /\ pyRandom = Fresh(PyInt(0 - 1))
    /\ npRandom = Fresh(PyInt(0))

\* C10: a call with deterministic false changes neither cuDNN flag, and once
\* cudnn.deterministic is on and cudnn.benchmark is off no step of any call
\* changes either.
FlagsNeverTurnedBack ==
    [][((cudnnDeterministic /\ ~cudnnBenchmark) =>
            (cudnnDeterministic' /\ ~cudnnBenchmark'))
       /\ ((\E t \in Threads : Running(t) /\ ~deterministic[t]) =>
            UNCHANGED <<cudnnDeterministic, cudnnBenchmark>>)]_vars

\* A call with deterministic false finished after a call with deterministic
\* true, with torch working, and the flags are still on and off.
FlagsNeverTurnedBackWitness ==
    /\ Done(MainThread)
    /\ ~deterministic[MainThread]
    /\ prev[MainThread] # NoCall
    /\ prev[MainThread].deterministic
    /\ torch = "ok"
    /\ torchCpu = Fresh(ret[MainThread])
    /\ cudnnDeterministic
    /\ ~cudnnBenchmark

====
